---------------------------- MODULE Spec2Model ----------------------------
(***************************************************************************)
(* Transaction assembly and fee / execution-unit convergence of the        *)
(* hot/cold DRep command line (cli/src/main.rs).                           *)
(*                                                                         *)
(* Four specifications share the variables below:                          *)
(*   Spec       the convergence loop build_transaction, run against the    *)
(*              shapes of the four builders (assign-stake, delegate,       *)
(*              redelegate, vote);                                         *)
(*   PureSpec   the pure helpers subtract, build_rules and                 *)
(*              script_integrity_hash applied to bounded inputs;           *)
(*   ChainSpec  a chain on which delegate / redelegate transactions are    *)
(*              accepted and votes are built with recover_rules;          *)
(*   MainSpec   one run of the command line, from the parsed arguments to  *)
(*              the printed envelope, with the builder closures inside     *)
(*              build_transaction.                                         *)
(***************************************************************************)
EXTENDS Integers, Sequences, FiniteSets, TLC

VARIABLES
    \* ---- build_transaction (Spec)
    op,          \* which builder closure `with` is
    params,      \* the ProtocolParameters snapshot
    signers,     \* number of required signers the builder declares
    fuel,        \* coin of the fuel output the builder subtracts from
    pc,          \* "Iterate" | "Converged" | "Failed"
    fee,         \* `fee` (main.rs:871)
    ex_units,    \* `ex_units` (main.rs:872)
    attempts,    \* `attempts` (main.rs:875)
    tx,          \* `tx` (main.rs:874): the transaction built last
    calls,       \* history: one record per invocation of `with`
    cause,       \* the panic message of a Failed run
    result,      \* the value of Ok(tx) (main.rs:945)
    \* ---- pure helpers (PureSpec)
    fn,          \* the helper under test
    arg,         \* its input
    out,         \* its output, NotRun before the call
    \* ---- chain (ChainSpec)
    contract,    \* value held by the current contract UTXO, NoUtxo before delegate
    minted,      \* accepted transactions, in chain order
    supplied,    \* rule term supplied at the most recent (re)delegation
    lastTx,      \* the transaction built last by delegate / redelegate
    voteTx,      \* the vote transaction built last
    \* ---- a whole command (MainSpec), which also uses the variables of Spec
    cmd,         \* the parsed command line
    world,       \* what the external collaborators answer
    log,         \* the calls made so far, in order
    vote_rules,  \* `rules` of vote (main.rs:756)
    vote_anchor, \* `anchor` of vote (main.rs:758-774)
    stdout       \* the envelope printed by report, NoTx before

engineVars == <<op, params, signers, fuel, pc, fee, ex_units, attempts, tx, calls, cause, result>>
pureVars   == <<fn, arg, out>>
chainVars  == <<contract, minted, supplied, lastTx, voteTx>>
mainVars   == <<cmd, world, log, vote_rules, vote_anchor, stdout>>
vars       == <<engineVars, pureVars, chainVars, mainVars>>

NoTx   == [none |-> TRUE]
NotRun == [notrun |-> TRUE]
NoUtxo == [noutxo |-> TRUE]
None   == [option |-> "None"]
Some(x) == [option |-> "Some", value |-> x]

Min(a, b) == IF a <= b THEN a ELSE b

RECURSIVE SumSeq(_)
SumSeq(s) == IF s = <<>> THEN 0 ELSE Head(s) + SumSeq(Tail(s))

(***************************************************************************)
(* Bounds of the model.                                                    *)
(***************************************************************************)
\* two serialized lengths a builder may produce: a short and a long encoding
TxLenShort == 40
TxLenLong  == 150
\* the non-zero execution units the evaluator may measure for a redeemer
MaxMem     == 3
MaxSteps   == 5
\* number of required signers (administrators / delegates) declared
MaxSigners == 1
\* coin of the fuel output: one the fee exhausts, one it does not
FuelLow    == 200
FuelHigh   == 2000
\* coin of a fuel output that covers every deposit and fee
FuelAmple  == 10000000
\* coin a contract output may hold above its minimum
ContractSurplus == 1000

\* longest delegate list supplied to build_rules
MaxDelegates == 2
\* largest coin and cost handed to subtract
MaxCoin == 4
\* longest list of language views handed to script_integrity_hash
MaxViews == 3
\* denominator of the rational protocol prices price_mem, price_steps
PriceDen == 4
\* sampled protocol parameters: min-UTxO coefficient and DRep deposit
MinUtxoCoefficient == 4310
\* a per-byte coefficient whose minimum coin is close to the largest integer
\* the model checker represents
PerByteLarge == 7000000
DRepDeposit == 500000
\* denominator of the rational collateral percentage
CollateralDen == 2

(***************************************************************************)
(* Program constants.                                                      *)
(***************************************************************************)
\* `attempts >= 3` (main.rs:937)
MaxAttempts == 3
\* number of entries of empty_ex_units() (main.rs:863-868)
EmptySlots == 4

ExUnits(mem, steps) == [mem |-> mem, steps |-> steps]

\* main.rs:862-869
empty_ex_units == [i \in 1..EmptySlots |-> ExUnits(0, 0)]

(***************************************************************************)
(* Shapes of the four builder closures.                                    *)
(***************************************************************************)
Ops == {"assign_stake", "delegate", "redelegate", "vote"}

\* `resolved_inputs` handed to build_transaction: &[] for assign-stake
\* (main.rs:361), fuel for delegate (430-433), contract and fuel for
\* redelegate (564-573) and vote (745-754)
resolved_inputs(o) ==
    CASE o = "assign_stake" -> 0
      [] o = "delegate"     -> 1
      [] o = "redelegate"   -> 2
      [] o = "vote"         -> 2

\* redeemers pushed by each builder
num_redeemers(o) ==
    CASE o = "assign_stake" -> 0
      [] o = "delegate"     -> 2
      [] o = "redelegate"   -> 4
      [] o = "vote"         -> 1

\* `inputs` of each builder
num_inputs(o) ==
    CASE o = "assign_stake" -> 1
      [] o = "delegate"     -> 1
      [] o = "redelegate"   -> 2
      [] o = "vote"         -> 1

\* required_signers: None for assign-stake (default_transaction_body), the
\* administrators / delegates otherwise (new_transaction_body, main.rs:1018)
required_signers(o, n) == IF o = "assign_stake" THEN 0 ELSE n

\* the builder closures unwrap `subtract(fuel, cost).expect("not enough fuel")`:
\* every builder needs the fuel coin to exceed at least the fee
not_enough_fuel(fuelCoin, f) == ~(fuelCoin > f)

\* a builder that leaves `fee` to default_transaction_body (main.rs:957)
with_default_fee(o, n, f, units) ==
    [ fee              |-> 0,
      redeemers        |-> [i \in 1..num_redeemers(o) |-> units[i]],
      inputs           |-> num_inputs(o),
      required_signers |-> required_signers(o, n) ]

\* `with(fee, &ex_units[..])`: the declared fee and, per redeemer, the
\* execution units taken from ex_units by position
with(o, n, f, units) ==
    [ fee              |-> f,
      redeemers        |-> [i \in 1..num_redeemers(o) |-> units[i]],
      inputs           |-> num_inputs(o),
      required_signers |-> required_signers(o, n) ]

(***************************************************************************)
(* build_transaction, main.rs:854-946                                      *)
(***************************************************************************)
Ceil(n, d) == (n + d - 1) \div d

\* main.rs:1194-1199
total_execution_cost(p, redeemers) ==
    SumSeq([i \in 1..Len(redeemers) |->
              Ceil(p.price_mem * redeemers[i].mem, PriceDen)
            + Ceil(p.price_steps * redeemers[i].steps, PriceDen)])

\* a feedback that forgets what was measured
calculated_ex_units_forgotten(o, measured) == empty_ex_units \o empty_ex_units

\* main.rs:883-903: the measured units (none without resolved inputs), then
\* four empty slots
calculated_ex_units(o, measured) ==
    (IF resolved_inputs(o) = 0 THEN empty_ex_units ELSE measured) \o empty_ex_units

\* main.rs:916-921
num_signatories(t) == t.inputs + t.required_signers

\* main.rs:907-927
estimated_fee(p, units, t, serialized_len) ==
      p.fee_constant
    + p.fee_coefficient * (5 + Len(units) * 16 + num_signatories(t) * 102 + serialized_len)
    + total_execution_cost(p, units)

\* a convergence test that forgets the execution units
fixed_point_fee_only(f, estimated, calculated, units) == f >= estimated

\* a convergence test that wants the fee to be met exactly
fixed_point_exact(f, estimated, calculated, units) ==
    /\ f = estimated
    /\ \A i \in 1..Min(Len(calculated), Len(units)) : calculated[i] = units[i]

\* main.rs:930-934: zip stops at the shorter of the two lists
fixed_point(f, estimated, calculated, units) ==
    /\ f >= estimated
    /\ \A i \in 1..Min(Len(calculated), Len(units)) : calculated[i] = units[i]

\* a cap that is off by one
gives_up_late(n) == n > MaxAttempts

\* main.rs:937
gives_up(n) == n >= MaxAttempts


(***************************************************************************)
(* Binary codec and hashes.  An encoding is the sequence of its CBOR items *)
(* (each item carries its header: a tag, a length, an integer, a byte      *)
(* string); a hash is collision free: it is its preimage, tagged with the  *)
(* digest size.                                                            *)
(***************************************************************************)
RECURSIVE Flatten(_)
Flatten(ss) == IF ss = <<>> THEN <<>> ELSE Head(ss) \o Flatten(Tail(ss))

\* PlutusData
Constr(tag, fields) == [kind |-> "Constr", tag |-> tag, fields |-> fields]
Array(items)        == [kind |-> "Array", items |-> items]
BoundedBytes(b)     == [kind |-> "BoundedBytes", bytes |-> b]

\* cbor::encode of a PlutusData
RECURSIVE cbor_data(_)
cbor_data(d) ==
    CASE d.kind = "Constr" ->
            <<[tag |-> d.tag], [array |-> Len(d.fields)]>>
                \o Flatten([i \in 1..Len(d.fields) |-> cbor_data(d.fields[i])])
      [] d.kind = "Array" ->
            <<[array |-> Len(d.items)]>>
                \o Flatten([i \in 1..Len(d.items) |-> cbor_data(d.items[i])])
      [] d.kind = "BoundedBytes" -> <<[bytes |-> d.bytes]>>

\* Hasher::<224>::hash_cbor / Hasher::<256>::hash
Hash224(preimage) == [blake2b_224 |-> preimage]
Hash256(preimage) == [blake2b_256 |-> preimage]

\* main.rs:1053-1059
void == Constr(121, <<>>)

(***************************************************************************)
(* Value arithmetic, main.rs:1142-1177                                     *)
(***************************************************************************)
Coin(lovelace)               == [kind |-> "Coin", coin |-> lovelace]
Multiasset(lovelace, assets) == [kind |-> "Multiasset", coin |-> lovelace, assets |-> assets]

\* main.rs:1142-1150: one policy, the (asset name, quantity) pairs as given
singleton_assets(validator_hash, assets) == << <<validator_hash, assets>> >>

\* a reading that sees no coin in any value
lovelace_of_nothing(value) == 0

\* main.rs:1173-1177
lovelace_of(value) == value.coin

\* a subtraction that lets the coin reach zero
subtract_to_zero(total_value, total_cost) ==
    IF total_value.coin >= total_cost
      THEN Some([total_value EXCEPT !.coin = total_value.coin - total_cost])
      ELSE None

\* main.rs:1163-1171.  The coin is a u64; `total - total_cost` is only
\* evaluated under `total > total_cost`, so it cannot wrap.
subtract(total_value, total_cost) ==
    CASE total_value.kind = "Coin" /\ total_value.coin > total_cost ->
            Some(Coin(total_value.coin - total_cost))
      [] total_value.kind = "Multiasset" /\ total_value.coin > total_cost ->
            Some(Multiasset(total_value.coin - total_cost, total_value.assets))
      [] OTHER -> None

\* main.rs:1061-1069: the first asset name of the first policy
find_contract_token(value) ==
    IF value.kind = "Multiasset" /\ value.assets # <<>> /\ value.assets[1][2] # <<>>
      THEN Some(value.assets[1][2][1][1])
      ELSE None

(***************************************************************************)
(* Quorum rules, main.rs:1071-1102                                         *)
(***************************************************************************)
Panic(msg) == [panic |-> msg]
IsPanic(r) == "panic" \in DOMAIN r

\* main.rs:1079-1096: the quorum is not part of the term
rule_term(delegates) ==
    Constr(123, << Array([i \in 1..Len(delegates) |->
                            Constr(121, <<BoundedBytes(delegates[i])>>)]) >>)

\* main.rs:1098-1099
state_token_name(rules) == [prefix |-> "gov_", digest |-> Hash224(cbor_data(rules))]

\* main.rs:1071-1102
build_rules(delegates, quorum) ==
    IF ~(quorum <= Len(delegates))
      THEN Panic("quorum cannot be larger than number of delegates")
    ELSE IF delegates = <<>>
      THEN Panic("there must be at least one delegate")
    ELSE [rules |-> rule_term(delegates), asset_name |-> state_token_name(rule_term(delegates))]

(***************************************************************************)
(* Script integrity hash, main.rs:1201-1238                                *)
(***************************************************************************)
Languages == {"PlutusV1", "PlutusV2", "PlutusV3"}

\* the comparator of main.rs:1223-1233, arm by arm
language_cmp(a, b) ==
    IF a = "PlutusV3" /\ b = "PlutusV3" THEN "Equal"
    ELSE IF a = "PlutusV3" THEN "Greater"
    ELSE IF b = "PlutusV3" THEN "Less"
    ELSE IF a = "PlutusV2" /\ b = "PlutusV2" THEN "Equal"
    ELSE IF a = "PlutusV2" THEN "Greater"
    ELSE IF b = "PlutusV2" THEN "Less"
    ELSE "Equal"

\* stable insertion of a view into a sorted list: after every view that is
\* not greater than it
RECURSIVE insert_view(_, _)
insert_view(v, sorted) ==
    IF sorted = <<>> THEN <<v>>
    ELSE IF language_cmp(v[1], Head(sorted)[1]) = "Less"
           THEN <<v>> \o sorted
           ELSE <<Head(sorted)>> \o insert_view(v, Tail(sorted))

RECURSIVE insertion_sort(_, _)
insertion_sort(views, sorted) ==
    IF views = <<>> THEN sorted
    ELSE insertion_sort(Tail(views), insert_view(Head(views), sorted))

\* views committed in the order they were supplied in
unsorted_views(language_views) == language_views

\* main.rs:1221-1233: `views.sort_by(..)`, a stable sort
sort_views(language_views) == insertion_sort(language_views, <<>>)

\* the discriminant a Language encodes to
language_code(l) ==
    CASE l = "PlutusV1" -> 0 [] l = "PlutusV2" -> 1 [] l = "PlutusV3" -> 2

\* cbor::encode(NonEmptyKeyValuePairs::Def(views), ..), main.rs:1234
cbor_views(views) ==
    <<[map |-> Len(views)]>>
        \o Flatten([i \in 1..Len(views) |->
                      <<[uint |-> language_code(views[i][1])], [array |-> Len(views[i][2])]>>
                          \o [k \in 1..Len(views[i][2]) |-> [int |-> views[i][2][k]]]])

\* the code of a RedeemerTag
redeemer_tag_code(t) ==
    CASE t = "Spend" -> 0 [] t = "Mint" -> 1 [] t = "Cert" -> 2
      [] t = "Reward" -> 3 [] t = "Vote" -> 4 [] t = "Propose" -> 5

\* cbor::encode of the redeemers map, main.rs:1212
cbor_redeemers(redeemers) ==
    <<[map |-> Len(redeemers)]>>
        \o Flatten([i \in 1..Len(redeemers) |->
                      <<[array |-> 2], [uint |-> redeemer_tag_code(redeemers[i].tag)],
                        [uint |-> redeemers[i].index], [array |-> 2]>>
                          \o cbor_data(redeemers[i].data)
                          \o <<[array |-> 2], [uint |-> redeemers[i].ex_units.mem],
                               [uint |-> redeemers[i].ex_units.steps]>>])

\* cbor::encode of the datums map, main.rs:1216
cbor_datums(datums) ==
    <<[map |-> Len(datums)]>>
        \o Flatten([i \in 1..Len(datums) |->
                      <<[bytes |-> datums[i][1]]>> \o cbor_data(datums[i][2])])

\* main.rs:1201-1238
script_integrity_hash(redeemers, datums, language_views) ==
    IF redeemers = None /\ language_views = <<>> /\ datums = None
      THEN None
      ELSE Some(Hash256(
                (IF redeemers # None THEN cbor_redeemers(redeemers.value) ELSE <<>>)
             \o (IF datums # None THEN cbor_datums(datums.value) ELSE <<>>)
             \o (IF language_views # <<>> THEN cbor_views(sort_views(language_views))
                                          ELSE <<>>)))


(***************************************************************************)
(* Minimum-value output, main.rs:1180-1192                                 *)
(***************************************************************************)
\* bytes of the CBOR encoding of an unsigned integer below 2^32
cbor_uint_len(n) ==
    IF n < 24 THEN 1 ELSE IF n < 256 THEN 2 ELSE IF n < 65536 THEN 3 ELSE 5

\* bytes of the encoding of a contract output around its coin: the script
\* address (57 bytes), one policy (28 bytes) and one 32-byte asset name
\* ("gov_" and a 28-byte digest) of quantity 1, with their headers
ContractOutputOverhead == 130

\* cbor::encode(&value, &mut buffer); buffer.len(), main.rs:1185-1186
serialized_output_len(output) == ContractOutputOverhead + cbor_uint_len(output.value.coin)

\* a minimum that leaves no room for the growth of the coin's encoding
new_min_value_output_no_headroom(per_byte, build) ==
    build[(serialized_output_len(build[1]) + 160) * per_byte]

\* main.rs:1180-1192
new_min_value_output(per_byte, build) ==
    build[(serialized_output_len(build[1]) + 164) * per_byte]

(***************************************************************************)
(* Transaction bodies, main.rs:950-1051.  An optional non-empty collection *)
(* is the collection, empty when the field is absent; any other optional   *)
(* field is None or Some.  A transaction is its body together with the     *)
(* redeemers of its witness set.                                           *)
(***************************************************************************)
\* main.rs:950-973, with the redeemers of default_witness_set (975-986)
default_transaction_body ==
    [ inputs            |-> <<>>,
      reference_inputs  |-> <<>>,
      outputs           |-> <<>>,
      fee               |-> 0,
      required_signers  |-> <<>>,
      mint              |-> <<>>,
      certificates      |-> <<>>,
      voting_procedures |-> <<>>,
      collateral        |-> <<>>,
      collateral_return |-> None,
      total_collateral  |-> None,
      network_id        |-> None,
      script_data_hash  |-> None,
      redeemers         |-> <<>> ]

\* main.rs:989-1040, with new_witness_set (1042-1051) for the redeemers
new_transaction_body(inputs, reference_inputs, outputs, mint, certificates, votes, collateral, f, extra_signatories, script_data_hash, redeemers) ==
    [ default_transaction_body EXCEPT
        !.inputs            = inputs,
        !.reference_inputs  = reference_inputs,
        !.outputs           = outputs,
        !.fee               = f,
        !.required_signers  = extra_signatories,
        !.mint              = mint,
        !.certificates      = certificates,
        !.voting_procedures = votes,
        !.collateral        = collateral[1],
        !.collateral_return = Some(collateral[2]),
        !.total_collateral  = Some(collateral[3]),
        !.network_id        = Some("network_id"),
        !.script_data_hash  = Some(script_data_hash),
        !.redeemers         = redeemers ]

(***************************************************************************)
(* The builder closures of the four commands, main.rs:347-849              *)
(***************************************************************************)
\* from_validator, main.rs:1152-1161
validator_hash    == "validator_hash"
validator_address == "validator_address"

\* `fee + 2_000_000` (main.rs:379) and the deposit of the certificate (391)
StakeCost    == 2000000
StakeDeposit == 2000000

Redeemer(tag, index, data, units) ==
    [tag |-> tag, index |-> index, data |-> data, ex_units |-> units]

Output(address, value) == [address |-> address, value |-> value]

\* derive(Ord) of TransactionInput: by transaction id, then by index
input_less(a, b) == a[1] < b[1] \/ (a[1] = b[1] /\ a[2] < b[2])

\* the inputs in the order they were given in
unsorted_inputs(a, b) == <<a, b>>

\* `inputs.sort()` on two inputs, main.rs:601-602
sort_inputs(a, b) == IF input_less(b, a) THEN <<b, a>> ELSE <<a, b>>

\* main.rs:647-652: position (from 0) of the contract input in the sorted inputs
position_of(inputs, input) == (CHOOSE i \in 1..Len(inputs) : inputs[i] = input) - 1

\* main.rs:438-452 and 581-595
contract_build(asset_name) ==
    [lovelace \in Nat |->
        Output(validator_address,
               Multiasset(lovelace,
                          singleton_assets(validator_hash, << <<asset_name, 1>> >>)))]

contract_output(p, asset_name) ==
    new_min_value_output(p.min_utxo_deposit_coefficient, contract_build(asset_name))

\* a collateral that is rounded down
total_collateral_floor(p, f) == (f * p.collateral_percent) \div CollateralDen

\* `(fee as f64 * params.collateral_percent).ceil() as u64`, main.rs:454, 597
\* and 793; the percentage is collateral_percent / CollateralDen
total_collateral(p, f) == Ceil(f * p.collateral_percent, CollateralDen)

\* main.rs:526-531, 706-711 and 837-842
script_data_hash(p, redeemers) ==
    script_integrity_hash(Some(redeemers), None, << <<"PlutusV3", p.cost_model_v3>> >>).value

\* a cost that forgets the deposit
assign_stake_cost_fee_only(f) == f

\* `let total_cost = fee + 2_000_000`, main.rs:379
assign_stake_cost(f) == f + StakeCost

\* the closure of assign_stake, main.rs:361-409
assign_stake(fuelRef, fuel_output, f, units) ==
    LET address    == fuel_output.address
        total_cost == assign_stake_cost(f)
        change     == subtract(fuel_output.value, total_cost)
    IN  IF address.payment # "Key" THEN Panic("unreachable")
        ELSE IF change = None THEN Panic("not enough fuel")
        ELSE [ default_transaction_body EXCEPT
                 !.inputs  = <<fuelRef>>,
                 !.outputs = << Output([payment |-> "Key", hash |-> address.hash,
                                        delegation |-> address.hash],
                                       change.value) >>,
                 !.fee     = f,
                 !.certificates =
                     << [kind |-> "VoteRegDeleg", credential |-> address.hash,
                         drep |-> [script |-> validator_hash],
                         deposit |-> StakeDeposit] >> ]

\* the closure of delegate, main.rs:435-537
delegate(p, administrators, delegates, quorum, fuelRef, fuel_output, f, units) ==
    LET built      == build_rules(delegates, quorum)
        contract_new_output == contract_output(p, built.asset_name)
        total_cost == p.drep_deposit + lovelace_of(contract_new_output.value) + f
        change     == subtract(fuel_output.value, total_cost)
        returned   == subtract(fuel_output.value, total_collateral(p, f))
        redeemers  == << Redeemer("Mint", 0, void, units[1]),
                         Redeemer("Cert", 0, built.rules, units[2]) >>
    IN  IF IsPanic(built) THEN built
        ELSE IF change = None \/ returned = None THEN Panic("not enough fuel")
        ELSE new_transaction_body(
                 <<fuelRef>>,
                 <<>>,
                 << contract_new_output, Output(fuel_output.address, change.value) >>,
                 singleton_assets(validator_hash, << <<built.asset_name, 1>> >>),
                 << [kind |-> "RegDRepCert", credential |-> validator_hash,
                     deposit |-> p.drep_deposit] >>,
                 <<>>,
                 << <<fuelRef>>, Output(fuel_output.address, returned.value),
                    total_collateral(p, f) >>,
                 f,
                 administrators,
                 script_data_hash(p, redeemers),
                 redeemers)

\* `new + fee - old` on u64 (main.rs:604-605) when new + fee < old: a build
\* with overflow checks panics; one without wraps to 2^64 - (old - new - fee),
\* which no fuel coin exceeds, so the subtraction of line 631 finds no funds
underflow(overflow_checks) ==
    IF overflow_checks THEN Panic("attempt to subtract with overflow")
                       ELSE [panic |-> "not enough fuel", wrapped |-> TRUE]

\* a closure that hands the second and third execution units to the wrong
\* redeemers
redelegate_crossed_units(p, administrators, delegates, quorum, contractRef, contract_old_output, fuelRef, fuel_output, overflow_checks, f, units) ==
    LET built          == build_rules(delegates, quorum)
        old_asset_name == find_contract_token(contract_old_output.value)
        contract_new_output == contract_output(p, built.asset_name)
        inputs         == sort_inputs(contractRef, fuelRef)
        new_coin       == lovelace_of(contract_new_output.value)
        old_coin       == lovelace_of(contract_old_output.value)
        total_cost     == new_coin + f - old_coin
        change         == subtract(fuel_output.value, total_cost)
        returned       == subtract(fuel_output.value, total_collateral(p, f))
        redeemers      == << Redeemer("Mint", 0, void, units[1]),
                             Redeemer("Spend", position_of(inputs, contractRef),
                                      void, units[3]),
                             Redeemer("Cert", 0, void, units[2]),
                             Redeemer("Cert", 1, built.rules, units[4]) >>
    IN  IF IsPanic(built) THEN built
        ELSE IF old_asset_name = None THEN Panic("no state token in contract utxo?")
        ELSE IF new_coin + f < old_coin THEN underflow(overflow_checks)
        ELSE IF change = None \/ returned = None THEN Panic("not enough fuel")
        ELSE new_transaction_body(
                 inputs,
                 <<>>,
                 << contract_new_output, Output(fuel_output.address, change.value) >>,
                 singleton_assets(validator_hash, << <<built.asset_name, 1>>,
                                                     <<old_asset_name.value, -1>> >>),
                 << [kind |-> "UnRegDRepCert", credential |-> validator_hash,
                     deposit |-> p.drep_deposit],
                    [kind |-> "RegDRepCert", credential |-> validator_hash,
                     deposit |-> p.drep_deposit] >>,
                 <<>>,
                 << <<fuelRef>>, Output(fuel_output.address, returned.value),
                    total_collateral(p, f) >>,
                 f,
                 administrators,
                 script_data_hash(p, redeemers),
                 redeemers)

\* the closure of redelegate, main.rs:575-717
redelegate(p, administrators, delegates, quorum, contractRef, contract_old_output, fuelRef, fuel_output, overflow_checks, f, units) ==
    LET built          == build_rules(delegates, quorum)
        old_asset_name == find_contract_token(contract_old_output.value)
        contract_new_output == contract_output(p, built.asset_name)
        inputs         == sort_inputs(contractRef, fuelRef)
        new_coin       == lovelace_of(contract_new_output.value)
        old_coin       == lovelace_of(contract_old_output.value)
        total_cost     == new_coin + f - old_coin
        change         == subtract(fuel_output.value, total_cost)
        returned       == subtract(fuel_output.value, total_collateral(p, f))
        redeemers      == << Redeemer("Mint", 0, void, units[1]),
                             Redeemer("Spend", position_of(inputs, contractRef),
                                      void, units[2]),
                             Redeemer("Cert", 0, void, units[3]),
                             Redeemer("Cert", 1, built.rules, units[4]) >>
    IN  IF IsPanic(built) THEN built
        ELSE IF old_asset_name = None THEN Panic("no state token in contract utxo?")
        ELSE IF new_coin + f < old_coin THEN underflow(overflow_checks)
        ELSE IF change = None \/ returned = None THEN Panic("not enough fuel")
        ELSE new_transaction_body(
                 inputs,
                 <<>>,
                 << contract_new_output, Output(fuel_output.address, change.value) >>,
                 singleton_assets(validator_hash, << <<built.asset_name, 1>>,
                                                     <<old_asset_name.value, -1>> >>),
                 << [kind |-> "UnRegDRepCert", credential |-> validator_hash,
                     deposit |-> p.drep_deposit],
                    [kind |-> "RegDRepCert", credential |-> validator_hash,
                     deposit |-> p.drep_deposit] >>,
                 <<>>,
                 << <<fuelRef>>, Output(fuel_output.address, returned.value),
                    total_collateral(p, f) >>,
                 f,
                 administrators,
                 script_data_hash(p, redeemers),
                 redeemers)

\* Cardano::minting(validator_hash, asset_name): the transactions of the
\* chain, oldest first, that minted a token of that policy and name
minting(chain, policy, asset_name) ==
    SelectSeq(chain,
              LAMBDA t : \E i \in 1..Len(t.mint) :
                            /\ t.mint[i][1] = policy
                            /\ \E k \in 1..Len(t.mint[i][2]) :
                                  /\ t.mint[i][2][k][1] = asset_name
                                  /\ t.mint[i][2][k][2] > 0)

\* Iterator::find_map: the first element of `list` whose position is in
\* `hits`, if any
first_of(list, hits) ==
    IF hits = {} THEN None
    ELSE Some(list[CHOOSE i \in hits : \A j \in hits : i <= j])

\* a lookup that takes the first certificate redeemer, void or not
recover_rules_any_cert(chain, policy, contract_value) ==
    LET asset_name  == find_contract_token(contract_value)
        minting_txs == minting(chain, policy, asset_name.value)
        redeemers   == minting_txs[1].redeemers
        found       == first_of(redeemers,
                                {i \in 1..Len(redeemers) : redeemers[i].tag = "Cert"})
    IN  IF asset_name = None THEN Panic("no state token in contract utxo?")
        ELSE IF minting_txs = <<>> THEN Panic("no minting transaction found")
        ELSE IF found = None THEN Panic("could not find registration certificate")
        ELSE [rules |-> found.value.data, asset_name |-> asset_name.value]

\* main.rs:1108-1140
recover_rules(chain, policy, contract_value) ==
    LET asset_name  == find_contract_token(contract_value)
        minting_txs == minting(chain, policy, asset_name.value)
        redeemers   == minting_txs[1].redeemers
        found       == first_of(redeemers,
                                {i \in 1..Len(redeemers) :
                                    redeemers[i].tag = "Cert" /\ redeemers[i].data # void})
    IN  IF asset_name = None THEN Panic("no state token in contract utxo?")
        ELSE IF minting_txs = <<>> THEN Panic("no minting transaction found")
        ELSE IF found = None THEN Panic("could not find registration certificate")
        ELSE [rules |-> found.value.data, asset_name |-> asset_name.value]

\* the closure of vote, main.rs:776-848
vote(p, delegates, rules, anchor, contractRef, fuelRef, fuel_output, f, units) ==
    LET change    == subtract(fuel_output.value, f)
        returned  == subtract(fuel_output.value, total_collateral(p, f))
        redeemers == << Redeemer("Vote", 0, rules, units[1]) >>
    IN  IF change = None \/ returned = None THEN Panic("not enough fuel")
        ELSE new_transaction_body(
                 <<fuelRef>>,
                 <<contractRef>>,
                 << Output(fuel_output.address, change.value) >>,
                 <<>>,
                 <<>>,
                 << [voter |-> [drep_script |-> validator_hash], proposal |-> "proposal_id",
                     vote |-> "choice", anchor |-> anchor] >>,
                 << <<fuelRef>>, Output(fuel_output.address, returned.value),
                    total_collateral(p, f) >>,
                 f,
                 delegates,
                 script_data_hash(p, redeemers),
                 redeemers)

(***************************************************************************)
(* Inputs of Spec.                                                         *)
(***************************************************************************)
TxLens == {TxLenShort, TxLenLong}

Params ==
    [ fee_constant    : {0, 2},
      fee_coefficient : {0, 1},
      price_mem       : {2},     \* 2/4 per memory unit
      price_steps     : {1} ]    \* 1/4 per step

\* what the evaluator may report for one redeemer
Measurable == {ExUnits(0, 0), ExUnits(MaxMem, MaxSteps)}

\* eval_phase_two reports one result per redeemer of the transaction
Measurements(o) == [1..num_redeemers(o) -> Measurable]

\* the builder and the evaluator are functions of their arguments: an
\* invocation on arguments seen before yields what it yielded then
SameAsBefore(f, units, len, measured) ==
    \A j \in 1..Len(calls) :
        (calls[j].fee = f /\ calls[j].ex_units = units)
            => (calls[j].serialized_len = len /\ calls[j].measured = measured)

EngineIdle ==
    /\ op = "none" /\ params = NotRun /\ signers = 0 /\ fuel = 0 /\ pc = "Idle"
    /\ fee = 0 /\ ex_units = <<>> /\ attempts = 0 /\ tx = NoTx /\ calls = <<>>
    /\ cause = "none" /\ result = NoTx

PureIdle  == fn = "none" /\ arg = NotRun /\ out = NotRun
ChainIdle == contract = NoUtxo /\ minted = <<>> /\ supplied = NotRun
                /\ lastTx = NoTx /\ voteTx = NoTx
MainIdle  == cmd = NotRun /\ world = NotRun /\ log = <<>> /\ vote_rules = NotRun
                /\ vote_anchor = NotRun /\ stdout = NoTx

Init ==
    /\ op \in Ops
    /\ params \in Params
    /\ signers \in 0..MaxSigners
    /\ fuel \in {FuelLow, FuelHigh}
    /\ pc = "Iterate"
    /\ fee = 0
    /\ ex_units = empty_ex_units
    /\ attempts = 0
    /\ tx = NoTx
    /\ calls = <<>>
    /\ cause = "none"
    /\ result = NoTx
    /\ PureIdle
    /\ ChainIdle
    /\ MainIdle

\* the builder panics inside `with` (main.rs:877): nothing is built
BuilderPanics ==
    /\ pc = "Iterate"
    /\ not_enough_fuel(fuel, fee)
    /\ pc' = "Failed"
    /\ cause' = "not enough fuel"
    /\ calls' = Append(calls, [fee |-> fee, ex_units |-> ex_units, built |-> FALSE])
    /\ UNCHANGED <<op, params, signers, fuel, fee, ex_units, attempts, tx, result>>
    /\ UNCHANGED <<pureVars, chainVars, mainVars>>

\* eval_phase_two fails (main.rs:897): the transaction built is dropped
EvaluationFails ==
    /\ pc = "Iterate"
    /\ ~not_enough_fuel(fuel, fee)
    /\ resolved_inputs(op) # 0
    /\ tx' = with(op, signers, fee, ex_units)
    /\ pc' = "Failed"
    /\ cause' = "script evaluation failed"
    /\ calls' = Append(calls, [fee |-> fee, ex_units |-> ex_units, built |-> FALSE])
    /\ UNCHANGED <<op, params, signers, fuel, fee, ex_units, attempts, result>>
    /\ UNCHANGED <<pureVars, chainVars, mainVars>>

\* one full pass of the loop body, main.rs:876-943
Attempt ==
    /\ pc = "Iterate"
    /\ ~not_enough_fuel(fuel, fee)
    /\ \E len \in TxLens, measured \in Measurements(op) :
        LET built      == with(op, signers, fee, ex_units)
            calculated == calculated_ex_units(op, measured)
            n          == attempts + 1
            estimated  == estimated_fee(params, ex_units, built, len)
            stop       == fixed_point(fee, estimated, calculated, ex_units)
            call       == [ fee |-> fee, ex_units |-> ex_units, built |-> TRUE,
                            tx |-> built, serialized_len |-> len,
                            measured |-> measured, calculated |-> calculated,
                            estimated_fee |-> estimated, stopped |-> stop ]
        IN  /\ SameAsBefore(fee, ex_units, len, measured)
            /\ tx' = built
            /\ attempts' = n
            /\ calls' = Append(calls, call)
            /\ IF stop
                 THEN /\ pc' = "Converged"
                      /\ result' = built
                      /\ UNCHANGED <<fee, ex_units, cause>>
                 ELSE IF gives_up(n)
                 THEN /\ pc' = "Failed"
                      /\ cause' = "did not converge"
                      /\ UNCHANGED <<fee, ex_units, result>>
                 ELSE /\ pc' = "Iterate"
                      /\ ex_units' = calculated
                      /\ fee' = estimated
                      /\ UNCHANGED <<cause, result>>
    /\ UNCHANGED <<op, params, signers, fuel>>
    /\ UNCHANGED <<pureVars, chainVars, mainVars>>

Next == BuilderPanics \/ EvaluationFails \/ Attempt

Spec == Init /\ [][Next]_vars

(***************************************************************************)
(* Properties of build_transaction (checked under Spec).                   *)
(***************************************************************************)
Built(j) == calls[j].built
Last     == calls[Len(calls)]

\* every pair just measured equals the pair passed for the same slot
SlotsAgree(c) == \A i \in 1..Len(c.measured) : c.measured[i] = c.ex_units[i]

\* C1: an iteration stops and returns its transaction if and only if the fee
\* passed to the builder is >= the estimated fee of the transaction just
\* built and every execution-unit pair just measured equals the pair passed
\* to the builder for the same slot; otherwise that transaction is not
\* returned.
C1_ConvergenceTest ==
    /\ \A j \in 1..Len(calls) :
          Built(j) =>
            /\ calls[j].stopped
                  <=> (calls[j].fee >= calls[j].estimated_fee /\ SlotsAgree(calls[j]))
            /\ calls[j].stopped => (j = Len(calls) /\ pc = "Converged" /\ result = calls[j].tx)
            /\ (~calls[j].stopped /\ j = Len(calls)) => (result = NoTx /\ pc # "Converged")
    /\ pc = "Converged" => (calls # <<>> /\ Built(Len(calls)) /\ Last.stopped)

\* an iteration whose fee was met but whose units had moved was not returned,
\* and a later one converged
C1_Witness ==
    /\ pc = "Converged"
    /\ \E j \in 1..Len(calls) :
          /\ Built(j)
          /\ calls[j].fee >= calls[j].estimated_fee
          /\ ~SlotsAgree(calls[j])
          /\ ~calls[j].stopped

\* C2: the builder is invoked at most 3 times; the run ends Converged on
\* attempt 1, 2 or 3, or aborts for non-convergence right after the third
\* attempt; there is no fourth attempt.  (A panic of the builder or of the
\* evaluator aborts inside an attempt, within the same cap.)
C2_AtMostThreeAttempts ==
    /\ Len(calls) <= 3
    /\ attempts <= 3
    /\ pc = "Iterate" => (attempts < 3 /\ Len(calls) = attempts)
    /\ pc = "Converged" => (attempts \in 1..3 /\ Len(calls) = attempts)
    /\ (pc = "Failed" /\ cause = "did not converge")
          => /\ attempts = 3
             /\ Len(calls) = 3
             /\ \A j \in 1..3 : Built(j) /\ ~calls[j].stopped
    /\ (pc = "Failed" /\ cause # "did not converge")
          => (Len(calls) = attempts + 1 /\ ~Built(Len(calls)))
    /\ pc = "Failed" => result = NoTx

\* the third attempt did not converge and the run aborted
C2_Witness == pc = "Failed" /\ cause = "did not converge" /\ attempts = 3

\* a run that converged on its third attempt
C2_WitnessThird == pc = "Converged" /\ attempts = 3

\* C3: the transaction returned is the one the last builder invocation
\* produced: it declares the fee and the execution units of the converging
\* iteration, and the loop variables were not advanced after the test.
C3_ReturnsLastBuilt ==
    pc = "Converged" =>
        /\ result = tx
        /\ result = Last.tx
        /\ result.fee = Last.fee
        /\ \A i \in 1..Len(result.redeemers) : result.redeemers[i] = Last.ex_units[i]
        /\ Len(result.redeemers) = num_redeemers(op)
        /\ fee = Last.fee
        /\ ex_units = Last.ex_units

\* a run that converged on a later attempt, with a fee and units in force
C3_Witness ==
    /\ pc = "Converged"
    /\ attempts >= 2
    /\ result.fee > 0
    /\ \E i \in 1..Len(result.redeemers) : result.redeemers[i] # ExUnits(0, 0)

\* the estimated fee of iteration 2 is strictly lower than that of iteration
\* 1 and the measured units did not change
C4_Premise ==
    /\ Len(calls) >= 2
    /\ Built(1)
    /\ Built(2)
    /\ calls[2].estimated_fee < calls[1].estimated_fee
    /\ calls[2].measured = calls[1].measured

\* C4: when the estimated fee of iteration 2 is strictly lower than that of
\* iteration 1 and the measured units do not change, the run ends after
\* exactly 2 builder invocations and returns the transaction of iteration 2,
\* whose declared fee is the fee iteration 2 was built with.
C4_DecreasingFeeConvergesInTwo ==
    C4_Premise =>
        /\ pc = "Converged"
        /\ Len(calls) = 2
        /\ attempts = 2
        /\ result = calls[2].tx
        /\ result.fee = calls[2].fee
        /\ calls[2].fee = calls[1].estimated_fee

\* such a run, with scripts measured
C4_Witness == C4_Premise /\ calls[2].measured # <<>> /\ calls[2].fee > calls[2].estimated_fee

\* the fee formula with R the number of redeemers of the transaction built,
\* S its inputs plus its required signers, and the execution cost summed over
\* its redeemers
ClaimedFee(c) ==
      params.fee_constant
    + params.fee_coefficient
        * (5 + 16 * Len(c.tx.redeemers) + 102 * (c.tx.inputs + c.tx.required_signers)
             + c.serialized_len)
    + SumSeq([i \in 1..Len(c.tx.redeemers) |->
                  Ceil(params.price_mem * c.tx.redeemers[i].mem, PriceDen)
                + Ceil(params.price_steps * c.tx.redeemers[i].steps, PriceDen)])

\* C5: in every iteration, estimated_fee = fee_constant + fee_coefficient *
\* (5 + 16*R + 102*S + serialized length) + the rounded-up execution cost of
\* the redeemers, R being the number of redeemers of the transaction built.
C5_EstimatedFeeFormula ==
    \A j \in 1..Len(calls) : Built(j) => calls[j].estimated_fee = ClaimedFee(calls[j])

(***************************************************************************)
(* PureSpec: each helper applied once to an input drawn from a bounded set *)
(***************************************************************************)
AllZero(units) == \A i \in 1..Len(units) : units[i] = ExUnits(0, 0)

\* C16: the first builder invocation receives fee 0 and all-zero execution
\* units; invocation k+1 receives the fee estimated in iteration k and the
\* units measured in iteration k, slot by slot, followed by empty slots only
\* (all zero when there are no resolved inputs); nothing older is carried.
C16_FeedsPreviousIteration ==
    /\ calls # <<>> => (calls[1].fee = 0 /\ AllZero(calls[1].ex_units))
    /\ \A k \in 1..(Len(calls) - 1) :
          /\ Built(k)
          /\ calls[k + 1].fee = calls[k].estimated_fee
          /\ LET measured == calls[k].measured
                 units    == calls[k + 1].ex_units
             IN  IF resolved_inputs(op) = 0
                   THEN AllZero(units)
                   ELSE /\ Len(units) = Len(measured) + EmptySlots
                        /\ \A i \in 1..Len(units) :
                              units[i] = IF i <= Len(measured) THEN measured[i]
                                                               ELSE ExUnits(0, 0)

\* three invocations, the second and third fed different non-zero
\* measurements and different fees
C16_Witness ==
    /\ Len(calls) = 3
    /\ resolved_inputs(op) # 0
    /\ ~AllZero(calls[1].measured)
    /\ ~AllZero(calls[2].measured)
    /\ calls[1].measured # calls[2].measured
    /\ calls[1].estimated_fee # calls[2].estimated_fee
    /\ calls[3].fee = calls[2].estimated_fee

\* assign-stake, which has no resolved inputs, invoked a second time
C16_WitnessNoInputs ==
    /\ Len(calls) >= 2
    /\ resolved_inputs(op) = 0
    /\ calls[2].fee > 0

SeqsUpTo(S, n) == UNION {[1..k -> S] : k \in 0..n}

DelegateKeys  == {"d1", "d2"}
DelegateLists == SeqsUpTo(DelegateKeys, MaxDelegates)
Quorums       == 0..(MaxDelegates + 1)
RuleInputs    == [delegates : DelegateLists, quorum : Quorums]

AssetSamples ==
    { singleton_assets("policy", << <<"token", 1>> >>),
      << <<"policyA", << <<"a", 2>>, <<"b", 1>> >> >>, <<"policyB", << <<"c", 7>> >> >> >> }
ValueSamples ==
    {Coin(c) : c \in 0..MaxCoin} \cup {Multiasset(c, a) : c \in 0..MaxCoin, a \in AssetSamples}

CostModels  == { <<1>>, <<2, 3>> }
ViewLists   == SeqsUpTo(Languages \X CostModels, MaxViews)
RedeemerSamples ==
    { None,
      Some(<< [tag |-> "Mint", index |-> 0, data |-> void, ex_units |-> ExUnits(1, 2)] >>) }
DatumSamples == { None, Some(<< <<"datum_hash", void>> >>) }

\* per-byte coefficients: zero, one, the two around the step of the coin's
\* encoding from 3 to 5 bytes, the protocol's, and a large one
PerByteSamples ==
    { 0, 1, 65535 \div 295, (65535 \div 295) + 1, MinUtxoCoefficient, PerByteLarge }

AssetNameSamples ==
    { state_token_name(rule_term(<<"d1">>)), state_token_name(rule_term(<<"d1", "d2">>)) }

PureInit ==
    /\ \/ fn = "subtract" /\ arg \in [value : ValueSamples, cost : 0..(MaxCoin + 1)]
       \/ fn = "build_rules" /\ arg \in [first : RuleInputs, second : RuleInputs]
       \/ /\ fn = "script_integrity_hash"
          /\ arg \in [redeemers : RedeemerSamples, datums : DatumSamples,
                      language_views : ViewLists]
       \/ /\ fn = "new_min_value_output"
          /\ arg \in [per_byte : PerByteSamples, asset_name : AssetNameSamples]
    /\ out = NotRun
    /\ EngineIdle
    /\ ChainIdle
    /\ MainIdle

Subtract ==
    /\ fn = "subtract"
    /\ out = NotRun
    /\ out' = subtract(arg.value, arg.cost)
    /\ UNCHANGED <<fn, arg, engineVars, chainVars, mainVars>>

BuildRules ==
    /\ fn = "build_rules"
    /\ out = NotRun
    /\ out' = [ first  |-> build_rules(arg.first.delegates, arg.first.quorum),
                second |-> build_rules(arg.second.delegates, arg.second.quorum) ]
    /\ UNCHANGED <<fn, arg, engineVars, chainVars, mainVars>>

ScriptIntegrityHash ==
    /\ fn = "script_integrity_hash"
    /\ out = NotRun
    /\ out' = script_integrity_hash(arg.redeemers, arg.datums, arg.language_views)
    /\ UNCHANGED <<fn, arg, engineVars, chainVars, mainVars>>

NewMinValueOutput ==
    /\ fn = "new_min_value_output"
    /\ out = NotRun
    /\ out' = new_min_value_output(arg.per_byte, contract_build(arg.asset_name))
    /\ UNCHANGED <<fn, arg, engineVars, chainVars, mainVars>>

PureNext == Subtract \/ BuildRules \/ ScriptIntegrityHash \/ NewMinValueOutput

PureSpec == PureInit /\ [][PureNext]_vars

(***************************************************************************)
(* Properties of the pure helpers (checked under PureSpec).                *)
(***************************************************************************)
Ran(f) == fn = f /\ out # NotRun

\* C6: subtract(v, c) is none when lovelace_of(v) <= c; otherwise it is a
\* value of the same representation whose coin is exactly lovelace_of(v) - c,
\* strictly positive, and whose multi-asset map is unchanged.
C6_SubtractExact ==
    Ran("subtract") =>
        IF lovelace_of(arg.value) <= arg.cost
          THEN out = None
          ELSE /\ out.option = "Some"
               /\ out.value.kind = arg.value.kind
               /\ lovelace_of(out.value) = lovelace_of(arg.value) - arg.cost
               /\ lovelace_of(out.value) > 0
               /\ DOMAIN out.value = DOMAIN arg.value
               /\ arg.value.kind = "Multiasset" => out.value.assets = arg.value.assets

\* a multi-asset value whose coin exceeds the cost, subtracted
C6_Witness ==
    /\ Ran("subtract")
    /\ arg.value.kind = "Multiasset"
    /\ arg.cost > 0
    /\ lovelace_of(arg.value) > arg.cost
    /\ out # None

\* a value whose coin equals the cost, refused
C6_WitnessEqual == Ran("subtract") /\ lovelace_of(arg.value) = arg.cost /\ out = None

\* a delegate list and quorum the codec is specified for
ValidRules(r) == r.delegates # <<>> /\ 1 <= r.quorum /\ r.quorum <= Len(r.delegates)

\* C7: for non-empty L and 1 <= q <= |L| the rule term of build_rules(L, q)
\* determines (L, q): inputs that differ in the delegate list, in its order
\* or in the quorum have different rule terms and asset names, and equal
\* inputs have equal ones.
C7_RuleTermDeterminesRules ==
    (Ran("build_rules") /\ ValidRules(arg.first) /\ ValidRules(arg.second)) =>
        /\ ~IsPanic(out.first)
        /\ ~IsPanic(out.second)
        /\ arg.first = arg.second <=> out.first.rules = out.second.rules
        /\ arg.first = arg.second <=> out.first.asset_name = out.second.asset_name

\* the part of C7 the code keeps: the rule term and the asset name determine
\* the delegate list and its order
C7_RuleTermDeterminesDelegates ==
    (Ran("build_rules") /\ ValidRules(arg.first) /\ ValidRules(arg.second)) =>
        /\ arg.first.delegates = arg.second.delegates <=> out.first.rules = out.second.rules
        /\ arg.first.delegates = arg.second.delegates
              <=> out.first.asset_name = out.second.asset_name

\* C15: build_rules accepts (delegates, quorum) only when the delegate list
\* is non-empty and 1 <= quorum <= number of delegates; every other pair,
\* quorum = 0 included, aborts and yields no rule term and no asset name.
C15_QuorumBounds ==
    Ran("build_rules") =>
        /\ ValidRules(arg.first) <=> ~IsPanic(out.first)
        /\ ValidRules(arg.second) <=> ~IsPanic(out.second)

\* C18: new_min_value_output(per_byte, build) returns build(c) with
\* c = (serialized length of build(1) + 164) * per_byte, and c is at least
\* (160 + serialized length of the returned output) * per_byte: the 4 bytes
\* of headroom cover the growth of the coin's own encoding.
C18_MinValueHeadroom ==
    Ran("new_min_value_output") =>
        LET build == contract_build(arg.asset_name)
            c     == (serialized_output_len(build[1]) + 164) * arg.per_byte
        IN  /\ out = build[c]
            /\ lovelace_of(out.value) = c
            /\ c >= (160 + serialized_output_len(out)) * arg.per_byte

\* a coin encoded in 5 bytes, 4 more than the placeholder's: the headroom
\* is used up exactly
C18_Witness ==
    /\ Ran("new_min_value_output")
    /\ cbor_uint_len(lovelace_of(out.value)) = 5
    /\ cbor_uint_len(1) = 1
    /\ lovelace_of(out.value) = (160 + serialized_output_len(out)) * arg.per_byte
    /\ arg.per_byte = PerByteLarge

\* a coin encoded in 3 bytes
C18_WitnessShort ==
    /\ Ran("new_min_value_output")
    /\ cbor_uint_len(lovelace_of(out.value)) = 3
    /\ lovelace_of(out.value) > (160 + serialized_output_len(out)) * arg.per_byte

Injective(f) == \A i, j \in DOMAIN f : f[i] = f[j] => i = j

Rearrangements(s) ==
    { [i \in 1..Len(s) |-> s[p[i]]] : p \in {q \in [1..Len(s) -> 1..Len(s)] : Injective(q)} }

OnePerLanguage(views) == Injective([i \in 1..Len(views) |-> views[i][1]])

\* the views of `views` in the order v1, v2, v3
Canonical(views) ==
    LET pick(l) == SelectSeq(views, LAMBDA v : v[1] = l)
    IN  pick("PlutusV1") \o pick("PlutusV2") \o pick("PlutusV3")

\* C9: for fixed redeemers and datums, every permutation of a list of views
\* with at most one entry per language has the same script integrity hash:
\* the views are committed in the order v1, v2, v3, after the redeemers and
\* then the datums.
C9_ViewOrderIrrelevant ==
    (Ran("script_integrity_hash") /\ OnePerLanguage(arg.language_views)) =>
        /\ \A p \in Rearrangements(arg.language_views) :
              script_integrity_hash(arg.redeemers, arg.datums, p) = out
        /\ arg.language_views # <<>> =>
              out = Some(Hash256(
                        (IF arg.redeemers = None THEN <<>>
                                                 ELSE cbor_redeemers(arg.redeemers.value))
                     \o (IF arg.datums = None THEN <<>> ELSE cbor_datums(arg.datums.value))
                     \o cbor_views(Canonical(arg.language_views))))

\* the three languages supplied as v3, v1, v2, hashed
C9_Witness ==
    /\ Ran("script_integrity_hash")
    /\ Len(arg.language_views) = 3
    /\ OnePerLanguage(arg.language_views)
    /\ arg.language_views[1][1] = "PlutusV3"
    /\ arg.language_views[2][1] = "PlutusV1"
    /\ arg.redeemers # None
    /\ out # None

(***************************************************************************)
(* ChainSpec: delegate, then redelegations and votes, every transaction    *)
(* built being accepted on chain.                                          *)
(***************************************************************************)
\* number of delegate / redelegate transactions on the chain
MaxChain == 3

ChainParams ==
    [ min_utxo_deposit_coefficient : {MinUtxoCoefficient},
      drep_deposit                 : {DRepDeposit},
      collateral_percent           : {3},        \* 3/2: 150%
      cost_model_v3                : { <<1>> } ]

\* the fuel UTXO: ample coin at a key address
FuelAddress == [payment |-> "Key", hash |-> "fuel_vkh"]
ChainFuel   == Output(FuelAddress, Coin(FuelAmple))

\* delegate lists and quorums supplied on the command line: valid ones, an
\* empty list, quorum 0 and a quorum above the number of delegates
ChainRuleInputs ==
    [delegates : { <<>>, <<"d1">>, <<"d1", "d2">>, <<"d2", "d1">> }, quorum : Quorums]

\* the fuel UTXO: the second output of the first transaction, which sorts
\* after the first contract UTXO and before the later ones
FuelRef == <<1, 1>>

\* the fee and execution units build_transaction converged on
ConvergedFee   == FuelLow
ConvergedUnits == [i \in 1..EmptySlots |-> ExUnits(MaxMem, MaxSteps)] \o empty_ex_units

ChainInit ==
    /\ contract = NoUtxo
    /\ minted = <<>>
    /\ supplied = NotRun
    /\ lastTx = NoTx
    /\ voteTx = NoTx
    /\ params \in ChainParams
    /\ op = "none" /\ signers = 0 /\ fuel = 0 /\ pc = "Idle"
    /\ fee = 0 /\ ex_units = <<>> /\ attempts = 0 /\ tx = NoTx /\ calls = <<>>
    /\ cause = "none" /\ result = NoTx
    /\ PureIdle
    /\ MainIdle

\* the contract UTXO a transaction creates: its first output
ContractUtxo(id, t) == [input |-> <<id, 0>>, output |-> t.outputs[1]]

\* `delegate` (main.rs:412-538), its transaction accepted
Delegate ==
    /\ contract = NoUtxo
    /\ \E r \in ChainRuleInputs :
        LET t == delegate(params, <<"a1">>, r.delegates, r.quorum, FuelRef, ChainFuel,
                          ConvergedFee, ConvergedUnits)
        IN  IF IsPanic(t)
              THEN /\ lastTx' = [op |-> "delegate", aborted |-> t]
                   /\ UNCHANGED <<contract, minted, supplied, voteTx>>
              ELSE /\ lastTx' = [op |-> "delegate", args |-> r, tx |-> t]
                   /\ minted' = Append(minted, t)
                   /\ contract' = ContractUtxo(Len(minted) + 1, t)
                   /\ supplied' = [args |-> r, rules |-> rule_term(r.delegates)]
                   /\ voteTx' = NoTx
    /\ UNCHANGED <<engineVars, pureVars, mainVars>>

\* `redelegate` (main.rs:540-718), its transaction accepted
Redelegate ==
    /\ contract # NoUtxo
    /\ Len(minted) < MaxChain
    /\ \E r \in ChainRuleInputs :
        LET t == redelegate(params, <<"a1">>, r.delegates, r.quorum, contract.input,
                            contract.output, FuelRef, ChainFuel, TRUE,
                            ConvergedFee, ConvergedUnits)
        IN  IF IsPanic(t)
              THEN /\ lastTx' = [op |-> "redelegate", aborted |-> t]
                   /\ UNCHANGED <<contract, minted, supplied, voteTx>>
              ELSE /\ lastTx' = [op |-> "redelegate", args |-> r, tx |-> t,
                                 contractRef |-> contract.input,
                                 contract_old_output |-> contract.output]
                   /\ minted' = Append(minted, t)
                   /\ contract' = ContractUtxo(Len(minted) + 1, t)
                   /\ supplied' = [args |-> r, rules |-> rule_term(r.delegates)]
                   /\ voteTx' = NoTx
    /\ UNCHANGED <<engineVars, pureVars, mainVars>>

\* `vote` (main.rs:721-849) against the current contract UTXO
Vote ==
    /\ contract # NoUtxo
    /\ voteTx = NoTx
    /\ LET recovered == recover_rules(minted, validator_hash, contract.output.value)
        IN  voteTx' = IF IsPanic(recovered)
                        THEN [aborted |-> recovered]
                        ELSE [tx |-> vote(params, <<"d1">>, recovered.rules, None,
                                          contract.input, FuelRef, ChainFuel,
                                          ConvergedFee, ConvergedUnits)]
    /\ UNCHANGED <<contract, minted, supplied, lastTx>>
    /\ UNCHANGED <<engineVars, pureVars, mainVars>>

ChainNext == Delegate \/ Redelegate \/ Vote

ChainSpec == ChainInit /\ [][ChainNext]_vars

(***************************************************************************)
(* Properties of the chain operations (checked under ChainSpec).           *)
(***************************************************************************)
Accepted(o) == lastTx # NoTx /\ lastTx.op = o /\ "tx" \in DOMAIN lastTx

\* C8: after a delegate and any redelegations, a vote built against the
\* current contract UTXO carries in its Vote redeemer a rule term equal to
\* the one supplied at the most recent delegate / redelegate, recovered from
\* the first non-void Cert redeemer of the first transaction that minted the
\* contract's first asset name.
C8_VoteCarriesLatestRules ==
    voteTx # NoTx =>
        /\ "tx" \in DOMAIN voteTx
        /\ Len(voteTx.tx.redeemers) = 1
        /\ voteTx.tx.redeemers[1].tag = "Vote"
        /\ voteTx.tx.redeemers[1].data = supplied.rules
        /\ voteTx.tx.redeemers[1].data = rule_term(supplied.args.delegates)
        /\ voteTx.tx.reference_inputs = <<contract.input>>

\* a vote after redelegating away from a rule set and back to it: the token
\* name of the contract was minted twice
C8_Witness ==
    /\ voteTx # NoTx
    /\ Len(minted) = 3
    /\ minted[1].redeemers[2].data = minted[3].redeemers[4].data
    /\ minted[1].redeemers[2].data # minted[2].redeemers[4].data
    /\ Len(minting(minted, validator_hash,
                   find_contract_token(contract.output.value).value)) = 2

\* C10: the mint map of a redelegate transaction has the single policy
\* validator_hash with exactly two entries under distinct asset names, -1
\* for the name found in the spent contract output and +1 for the name
\* derived from the new rules, and the new contract output holds exactly 1
\* unit of the new name.
C10_RedelegateMintMap ==
    Accepted("redelegate") =>
        LET t       == lastTx.tx
            old     == find_contract_token(lastTx.contract_old_output.value).value
            new     == state_token_name(rule_term(lastTx.args.delegates))
            entries == t.mint[1][2]
        IN  /\ Len(t.mint) = 1
            /\ t.mint[1][1] = validator_hash
            /\ Len(entries) = 2
            /\ entries[1][1] # entries[2][1]
            /\ \E i \in 1..2 : entries[i] = <<old, -1>>
            /\ \E i \in 1..2 : entries[i] = <<new, 1>>
            /\ t.outputs[1].value.assets = << <<validator_hash, << <<new, 1>> >> >> >>

\* the redeemers of a transaction with a given tag, in witness order
WithTag(t, tag) == SelectSeq(t.redeemers, LAMBDA r : r.tag = tag)

\* C17: in every redelegate transaction the two inputs are in canonical
\* sorted order whichever of the contract and fuel references is smaller,
\* the single Spend redeemer's index is the position of the contract input
\* in that sorted list, the certificates are unregister then register, and
\* Cert redeemer 0 carries the void term, Cert redeemer 1 the new rule term.
C17_RedelegateOrdering ==
    Accepted("redelegate") =>
        LET t      == lastTx.tx
            spends == WithTag(t, "Spend")
            certs  == WithTag(t, "Cert")
        IN  /\ Len(t.inputs) = 2
            /\ {t.inputs[1], t.inputs[2]} = {lastTx.contractRef, FuelRef}
            /\ input_less(t.inputs[1], t.inputs[2])
            /\ Len(spends) = 1
            /\ spends[1].index \in 0..1
            /\ t.inputs[spends[1].index + 1] = lastTx.contractRef
            /\ Len(t.certificates) = 2
            /\ t.certificates[1].kind = "UnRegDRepCert"
            /\ t.certificates[2].kind = "RegDRepCert"
            /\ Len(certs) = 2
            /\ certs[1].index = 0 /\ certs[1].data = void
            /\ certs[2].index = 1 /\ certs[2].data = rule_term(lastTx.args.delegates)
            /\ certs[2].data # void

\* the contract reference sorts after the fuel reference: the list built
\* as (contract, fuel) is reordered and the Spend index is 1
C17_Witness ==
    /\ Accepted("redelegate")
    /\ input_less(FuelRef, lastTx.contractRef)
    /\ WithTag(lastTx.tx, "Spend")[1].index = 1

\* the contract reference sorts first: Spend index 0
C17_WitnessContractFirst ==
    /\ Accepted("redelegate")
    /\ input_less(lastTx.contractRef, FuelRef)
    /\ WithTag(lastTx.tx, "Spend")[1].index = 0

(***************************************************************************)
(* MainSpec: one run of a command, main.rs:27-139: protocol parameters,    *)
(* UTXO resolution, for vote the rules and the anchor, then                *)
(* build_transaction around the closure of the command, then report.       *)
(***************************************************************************)
\* --delegate and --quorum as given: no delegate, a quorum above the number
\* of delegates, a quorum of zero, and the default quorum
RuleArgs ==
    { [delegates |-> <<>>,           quorum |-> None],
      [delegates |-> <<"d1">>,       quorum |-> Some(2)],
      [delegates |-> <<"d1", "d2">>, quorum |-> Some(0)],
      [delegates |-> <<"d1", "d2">>, quorum |-> None] }

\* the contract UTXO named by --contract: it sorts after the fuel
ContractRef == <<2, 0>>

Commands ==
         { [op |-> "assign_stake", delegates |-> <<>>, quorum |-> None, signers |-> <<>>,
            contract |-> None, anchor |-> None] }
    \cup { [op |-> "delegate", delegates |-> r.delegates, quorum |-> r.quorum,
            signers |-> <<"a1">>, contract |-> None, anchor |-> None] : r \in RuleArgs }
    \cup { [op |-> "redelegate", delegates |-> r.delegates, quorum |-> r.quorum,
            signers |-> <<"a1">>, contract |-> Some(ContractRef), anchor |-> None] :
              r \in RuleArgs \ {[delegates |-> <<"d1", "d2">>, quorum |-> Some(0)]} }
    \cup { [op |-> "vote", delegates |-> <<>>, quorum |-> None, signers |-> <<"d1">>,
            contract |-> Some(ContractRef), anchor |-> a] : a \in {None, Some("url")} }

\* main.rs:65-69: `.unwrap_or(delegates.len())`
quorum_of(c) == IF c.quorum = None THEN Len(c.delegates) ELSE c.quorum.value

MainParams ==
    [ fee_constant                 : {2},
      fee_coefficient              : {1},
      price_mem                    : {2},
      price_steps                  : {1},
      collateral_percent           : {3},
      min_utxo_deposit_coefficient : {MinUtxoCoefficient},
      drep_deposit                 : {DRepDeposit},
      cost_model_v3                : { <<1>> } ]

ScriptAddress == [payment |-> "Script", hash |-> "script_hash"]
OtherAssets   == << <<"policy", << <<"token", 5>> >> >> >>

\* the fee assign-stake is first estimated at, for the short encoding
FirstFee(p) ==
    estimated_fee(p, empty_ex_units, [inputs |-> 1, required_signers |-> 0], TxLenShort)

\* what `resolve(&fuel)` may answer: nothing, a fuel that a later fee
\* exhausts, an ample one carrying other assets, and for assign-stake one at
\* a script address
FuelOutputs(o, p) ==
    {None} \cup
    IF o = "assign_stake"
      THEN { Output(FuelAddress, Coin(StakeCost + FirstFee(p))),
             Output(FuelAddress, Multiasset(FuelAmple, OtherAssets)),
             Output(ScriptAddress, Coin(FuelAmple)) }
      ELSE { Output(FuelAddress, Coin(FuelLow)),
             Output(FuelAddress, Multiasset(FuelAmple, OtherAssets)) }

\* the contract output a delegation to d1 created
HeldContract(p) == contract_output(p, state_token_name(rule_term(<<"d1">>)))

\* what `resolve(&contract)` may answer: nothing, an output without a token,
\* the contract output at its minimum coin, and the same holding more coin
\* or (created under a smaller per-byte coefficient) less coin
ContractOutputs(o, p) ==
    CASE o = "redelegate" ->
            { None,
              Output(validator_address, Coin(FuelAmple)),
              HeldContract(p),
              [HeldContract(p) EXCEPT !.value.coin = @ + ContractSurplus],
              [HeldContract(p) EXCEPT !.value.coin = @ - ContractSurplus] }
      [] o = "vote" ->
            { None, Output(validator_address, Coin(FuelAmple)), HeldContract(p) }
      [] OTHER -> {None}

\* the transaction that minted the token of HeldContract
MintingTx(p) ==
    delegate(p, <<"a1">>, <<"d1">>, 1, <<0, 0>>, ChainFuel, ConvergedFee, ConvergedUnits)

\* the chain the indexer answers `minting` from: no minting transaction, the
\* delegation, and a minting transaction without a certificate redeemer
Chains(o, p) ==
    IF o = "vote"
      THEN { <<>>, <<MintingTx(p)>>,
             << [MintingTx(p) EXCEPT !.redeemers = SubSeq(@, 1, 1)] >> }
      ELSE { <<>> }

\* what the server of the anchor may answer
AnchorResponses(c) ==
    IF c.anchor = None THEN {"none"} ELSE {"success", "not found", "unreachable"}

Worlds(c) ==
    UNION { [ params   : {p},
              fuel     : FuelOutputs(c.op, p),
              contract : ContractOutputs(c.op, p),
              chain    : Chains(c.op, p),
              anchor   : AnchorResponses(c) ] : p \in MainParams }

MainInit ==
    /\ cmd \in Commands
    /\ world \in Worlds(cmd)
    /\ op = cmd.op
    /\ params = NotRun
    /\ signers = 0
    /\ fuel = 0
    /\ pc = "Start"
    /\ fee = 0
    /\ ex_units = <<>>
    /\ attempts = 0
    /\ tx = NoTx
    /\ calls = <<>>
    /\ cause = "none"
    /\ result = NoTx
    /\ log = <<>>
    /\ vote_rules = NotRun
    /\ vote_anchor = NotRun
    /\ stdout = NoTx
    /\ PureIdle
    /\ ChainIdle

\* an `expect`, `unwrap` or `panic!` ends the process
Abort(msg) == pc' = "Failed" /\ cause' = msg

\* build_transaction is entered, main.rs:871-875
EnterBuild ==
    /\ pc' = "Iterate"
    /\ fee' = 0
    /\ ex_units' = empty_ex_units
    /\ attempts' = 0

\* `network.protocol_parameters().await`, main.rs:354, 423, 552, 733
FetchParameters ==
    /\ pc = "Start"
    /\ params' = world.params
    /\ log' = Append(log, "protocol_parameters")
    /\ pc' = IF op \in {"redelegate", "vote"} THEN "ResolveContract" ELSE "ResolveFuel"
    /\ UNCHANGED <<op, signers, fuel, fee, ex_units, attempts, tx, calls, cause, result>>
    /\ UNCHANGED <<cmd, world, vote_rules, vote_anchor, stdout, pureVars, chainVars>>

\* `network.resolve(&contract).await.expect(..)`, main.rs:554-557, 735-738
ResolveContract ==
    /\ pc = "ResolveContract"
    /\ log' = Append(log, "resolve")
    /\ IF world.contract = None
         THEN Abort("failed to resolve contract UTxO")
         ELSE pc' = "ResolveFuel" /\ UNCHANGED cause
    /\ UNCHANGED <<op, params, signers, fuel, fee, ex_units, attempts, tx, calls, result>>
    /\ UNCHANGED <<cmd, world, vote_rules, vote_anchor, stdout, pureVars, chainVars>>

\* `network.resolve(&fuel).await.expect(..)`, main.rs:356-359, 425-428,
\* 559-562, 740-743
ResolveFuel ==
    /\ pc = "ResolveFuel"
    /\ log' = Append(log, "resolve")
    /\ IF world.fuel = None
         THEN Abort("failed to resolve fuel UTxO") /\ UNCHANGED <<fee, ex_units, attempts>>
         ELSE IF op = "vote"
         THEN pc' = "RecoverRules" /\ UNCHANGED <<cause, fee, ex_units, attempts>>
         ELSE EnterBuild /\ UNCHANGED cause
    /\ UNCHANGED <<op, params, signers, fuel, tx, calls, result>>
    /\ UNCHANGED <<cmd, world, vote_rules, vote_anchor, stdout, pureVars, chainVars>>

\* `recover_rules(&network, &validator_hash, &contract_output.value).await`,
\* main.rs:756
RecoverRules ==
    /\ pc = "RecoverRules"
    /\ LET recovered == recover_rules(world.chain, validator_hash, world.contract.value)
           asked     == IF find_contract_token(world.contract.value) = None
                          THEN <<>> ELSE <<"minting">>
       IN  /\ log' = log \o asked
           /\ IF IsPanic(recovered)
                THEN /\ Abort(recovered.panic)
                     /\ UNCHANGED <<vote_rules, fee, ex_units, attempts>>
                ELSE /\ vote_rules' = recovered.rules
                     /\ IF cmd.anchor = None
                          THEN EnterBuild /\ UNCHANGED cause
                          ELSE pc' = "FetchAnchor" /\ UNCHANGED <<cause, fee, ex_units, attempts>>
    /\ vote_anchor' = IF cmd.anchor = None THEN None ELSE vote_anchor
    /\ UNCHANGED <<op, params, signers, fuel, tx, calls, result>>
    /\ UNCHANGED <<cmd, world, stdout, pureVars, chainVars>>

\* `reqwest::get(url)` and the status of the response, main.rs:758-774
FetchAnchor ==
    /\ pc = "FetchAnchor"
    /\ log' = Append(log, "fetch anchor")
    /\ CASE world.anchor = "unreachable" ->
                /\ Abort("failed to fetch anchor at URL")
                /\ UNCHANGED <<vote_anchor, fee, ex_units, attempts>>
         [] world.anchor = "not found" ->
                /\ Abort("failed to fetch anchor content")
                /\ UNCHANGED <<vote_anchor, fee, ex_units, attempts>>
         [] OTHER ->
                /\ vote_anchor' = Some([url |-> cmd.anchor.value,
                                        content_hash |-> Hash256("content")])
                /\ EnterBuild
                /\ UNCHANGED cause
    /\ UNCHANGED <<op, params, signers, fuel, tx, calls, result>>
    /\ UNCHANGED <<cmd, world, vote_rules, stdout, pureVars, chainVars>>

\* `with(fee, &ex_units[..])` (main.rs:877) for the closure of the command
closure(overflow_checks, f, units) ==
    CASE op = "assign_stake" ->
            assign_stake(FuelRef, world.fuel, f, units)
      [] op = "delegate" ->
            delegate(params, cmd.signers, cmd.delegates, quorum_of(cmd),
                     FuelRef, world.fuel, f, units)
      [] op = "redelegate" ->
            redelegate(params, cmd.signers, cmd.delegates, quorum_of(cmd),
                       cmd.contract.value, world.contract, FuelRef, world.fuel,
                       overflow_checks, f, units)
      [] op = "vote" ->
            vote(params, cmd.signers, vote_rules, vote_anchor,
                 cmd.contract.value, FuelRef, world.fuel, f, units)

\* eval_phase_two (main.rs:888-897): one result per redeemer of the witness
\* set, in the order of the witness set, each with the key of its redeemer
Reports(t) ==
    { [i \in 1..Len(t.redeemers) |->
           [ key      |-> [tag |-> t.redeemers[i].tag, index |-> t.redeemers[i].index],
             ex_units |-> m[i] ]] : m \in [1..Len(t.redeemers) -> Measurable] }

\* `.map(|r| r.ex_units)`, main.rs:898-900
ex_units_of(reported) == [i \in 1..Len(reported) |-> reported[i].ex_units]

\* what num_signatories counts, main.rs:916-921
signatories(t) ==
    [inputs |-> Len(t.inputs), required_signers |-> Len(t.required_signers)]

\* the closure panics inside `with` (main.rs:877); the build either checks
\* arithmetic overflow or does not
MainBuilderPanics ==
    /\ pc = "Iterate"
    /\ \E overflow_checks \in BOOLEAN :
          \E built \in {closure(overflow_checks, fee, ex_units)} :
              /\ IsPanic(built)
              /\ Abort(built.panic)
              /\ calls' = Append(calls, [fee |-> fee, ex_units |-> ex_units,
                                         built |-> FALSE, panic |-> built])
    /\ log' = Append(log, "with")
    /\ UNCHANGED <<op, params, signers, fuel, fee, ex_units, attempts, tx, result>>
    /\ UNCHANGED <<cmd, world, vote_rules, vote_anchor, stdout, pureVars, chainVars>>

\* eval_phase_two fails (main.rs:897)
MainEvaluationFails ==
    /\ pc = "Iterate"
    /\ resolved_inputs(op) # 0
    /\ \E built \in {closure(TRUE, fee, ex_units)} :
           /\ ~IsPanic(built)
           /\ tx' = built
           /\ calls' = Append(calls, [fee |-> fee, ex_units |-> ex_units,
                                      built |-> FALSE, tx |-> built])
    /\ Abort("script evaluation failed")
    /\ log' = log \o <<"with", "evaluate">>
    /\ UNCHANGED <<op, params, signers, fuel, fee, ex_units, attempts, result>>
    /\ UNCHANGED <<cmd, world, vote_rules, vote_anchor, stdout, pureVars, chainVars>>

\* one full pass of the loop body, main.rs:876-943
MainAttempt ==
    /\ pc = "Iterate"
    /\ \E built \in {closure(TRUE, fee, ex_units)} :
           /\ ~IsPanic(built)
           /\ \E len \in TxLens, reported \in Reports(built) :
                LET measured   == ex_units_of(reported)
                    calculated == calculated_ex_units(op, measured)
                    n          == attempts + 1
                    estimated  == estimated_fee(params, ex_units, signatories(built), len)
                    stop       == fixed_point(fee, estimated, calculated, ex_units)
                    call       == [ fee |-> fee, ex_units |-> ex_units, built |-> TRUE,
                                    tx |-> built, serialized_len |-> len,
                                    reported |-> reported, measured |-> measured,
                                    calculated |-> calculated,
                                    estimated_fee |-> estimated, stopped |-> stop ]
                IN  /\ SameAsBefore(fee, ex_units, len, measured)
                    /\ tx' = built
                    /\ attempts' = n
                    /\ calls' = Append(calls, call)
                    /\ IF stop
                         THEN /\ pc' = "Converged"
                              /\ result' = built
                              /\ UNCHANGED <<fee, ex_units, cause>>
                         ELSE IF gives_up(n)
                         THEN /\ Abort("did not converge")
                              /\ UNCHANGED <<fee, ex_units, result>>
                         ELSE /\ pc' = "Iterate"
                              /\ ex_units' = calculated
                              /\ fee' = estimated
                              /\ UNCHANGED <<cause, result>>
    /\ log' = log \o (IF resolved_inputs(op) = 0 THEN <<"with">> ELSE <<"with", "evaluate">>)
    /\ UNCHANGED <<op, params, signers, fuel>>
    /\ UNCHANGED <<cmd, world, vote_rules, vote_anchor, stdout, pureVars, chainVars>>

\* a command that prints whatever transaction was built last
reports_any(p) == p \in {"Converged", "Failed"}

\* `report(..(..).await?)`, main.rs:38, 73-86, 120-132: only the Ok value of
\* build_transaction reaches report
reports(p) == p = "Converged"

\* the envelope of report, main.rs:333-345
envelope(t) ==
    [ type        |-> "Unwitnessed Tx ConwayEra",
      description |-> "Ledger Cddl Format",
      cborHex     |-> [hex |-> [cbor |-> t]] ]

\* report, main.rs:333-345
Report ==
    /\ reports(pc)
    /\ stdout' = envelope(tx)
    /\ pc' = "Reported"
    /\ log' = Append(log, "report")
    /\ UNCHANGED <<op, params, signers, fuel, fee, ex_units, attempts, tx, calls, cause, result>>
    /\ UNCHANGED <<cmd, world, vote_rules, vote_anchor, pureVars, chainVars>>

MainNext ==
    \/ FetchParameters
    \/ ResolveContract
    \/ ResolveFuel
    \/ RecoverRules
    \/ FetchAnchor
    \/ MainBuilderPanics
    \/ MainEvaluationFails
    \/ MainAttempt
    \/ Report

MainSpec == MainInit /\ [][MainNext]_vars

(***************************************************************************)
(* Properties of the commands (checked under MainSpec).                    *)
(***************************************************************************)
Returned(o) == op = o /\ pc \in {"Converged", "Reported"}

\* C11: the transaction returned by assign-stake has the fuel as its single
\* input, exactly one output whose coin is exactly fuel coin - declared fee -
\* 2_000_000, and exactly one certificate, a vote-registration-delegation
\* with deposit 2_000_000 delegating to the validator's script hash; an
\* invocation whose fuel coin does not strictly exceed fee + 2_000_000
\* aborts the operation.
C11_AssignStakeTransaction ==
    op = "assign_stake" =>
        /\ \A j \in 1..Len(calls) :
              lovelace_of(world.fuel.value) <= calls[j].fee + 2000000
                  => (~Built(j) /\ pc = "Failed" /\ result = NoTx)
        /\ Returned("assign_stake") =>
              /\ result.inputs = <<FuelRef>>
              /\ Len(result.outputs) = 1
              /\ lovelace_of(result.outputs[1].value)
                    = lovelace_of(world.fuel.value) - result.fee - 2000000
              /\ result.fee = Last.fee
              /\ Len(result.certificates) = 1
              /\ result.certificates[1].kind = "VoteRegDeleg"
              /\ result.certificates[1].deposit = 2000000
              /\ result.certificates[1].drep = [script |-> validator_hash]

\* assign-stake returned with a fee in force, from a fuel carrying assets
C11_Witness ==
    /\ Returned("assign_stake")
    /\ result.fee > 0
    /\ world.fuel.value.kind = "Multiasset"
    /\ result.outputs[1].value.assets = world.fuel.value.assets

\* assign-stake aborted on a fuel coin equal to fee + 2_000_000
C11_WitnessAbort ==
    /\ op = "assign_stake"
    /\ pc = "Failed"
    /\ cause = "not enough fuel"
    /\ lovelace_of(world.fuel.value) = Last.fee + 2000000

\* the least integer that is at least f * collateral_percent
ClaimedCollateral(f) ==
    CHOOSE n \in 0..(f * params.collateral_percent) :
        /\ n * CollateralDen >= f * params.collateral_percent
        /\ (n - 1) * CollateralDen < f * params.collateral_percent

\* total collateral is ceil(fee * collateral_percent), the collateral set is
\* the fuel input and the collateral return holds the fuel's value minus the
\* total collateral
Collateralised(t) ==
    /\ t.total_collateral = Some(ClaimedCollateral(t.fee))
    /\ t.collateral = <<FuelRef>>
    /\ t.collateral_return =
          Some(Output(world.fuel.address,
                      [world.fuel.value EXCEPT !.coin = @ - ClaimedCollateral(t.fee)]))

\* C12 as stated: in the transaction returned by each of the four operations
\* (assign-stake, delegate, redelegate, vote), total collateral equals
\* ceil(declared fee * collateral_percent), the collateral set is the fuel
\* input, and the collateral return output holds the fuel input's value minus
\* that total collateral.
C12_CollateralOfAllFour ==
    \A o \in Ops : Returned(o) => Collateralised(result)

\* C12, amended: the above holds of the transactions returned by delegate,
\* redelegate and vote; the transaction returned by assign-stake declares no
\* collateral set, no collateral return and no total collateral.
C12_CollateralOfScriptOperations ==
    /\ \A o \in {"delegate", "redelegate", "vote"} : Returned(o) => Collateralised(result)
    /\ Returned("assign_stake") =>
          /\ result.collateral = <<>>
          /\ result.collateral_return = None
          /\ result.total_collateral = None

\* a redelegation returned with a fee whose collateral had to be rounded up
C12_Witness ==
    /\ Returned("redelegate")
    /\ result.fee > 0
    /\ result.total_collateral.value * CollateralDen > result.fee * params.collateral_percent
    /\ world.fuel.value.kind = "Multiasset"

\* the ways a command aborts: resolution of a UTXO or of the minting
\* transaction, the anchor, the evaluator, a subtraction, non-convergence
Failures ==
    { "failed to resolve contract UTxO", "failed to resolve fuel UTxO",
      "no minting transaction found", "failed to fetch anchor at URL",
      "failed to fetch anchor content", "script evaluation failed",
      "not enough fuel", "did not converge" }

\* C13: an envelope is printed only after build_transaction has converged,
\* and it is the envelope of the transaction of the converging iteration; when
\* UTXO or minting-transaction resolution fails, the anchor fetch fails or
\* answers a non-success status, the evaluator fails, a subtraction finds
\* insufficient funds or the loop does not converge in 3 attempts, the
\* command aborts and neither an envelope nor a transaction comes out.
C13_EnvelopeOnlyAfterConvergence ==
    /\ stdout # NoTx =>
          /\ pc = "Reported"
          /\ cause = "none"
          /\ calls # <<>>
          /\ Built(Len(calls))
          /\ Last.stopped
          /\ result = Last.tx
          /\ stdout = envelope(result)
    /\ pc = "Failed" => (stdout = NoTx /\ result = NoTx)
    /\ pc = "Reported" => stdout # NoTx
    /\ cause \in Failures => pc = "Failed"

\* three transactions were built and evaluated, none converged, nothing was
\* printed
C13_Witness ==
    /\ pc = "Failed"
    /\ cause = "did not converge"
    /\ Len(calls) = 3
    /\ tx # NoTx
    /\ stdout = NoTx

\* every one of the failures happens, and so does a printed envelope
C13_WitnessResolution == cause = "failed to resolve contract UTxO"
C13_WitnessFuel       == cause = "failed to resolve fuel UTxO"
C13_WitnessMinting    == cause = "no minting transaction found"
C13_WitnessAnchor     == cause = "failed to fetch anchor at URL"
C13_WitnessStatus     == cause = "failed to fetch anchor content"
C13_WitnessEvaluator  == cause = "script evaluation failed" /\ tx # NoTx
C13_WitnessFunds      == cause = "not enough fuel" /\ tx # NoTx
C13_WitnessEnvelope   == stdout # NoTx /\ op = "vote" /\ vote_anchor # None

\* the assertions of build_rules
RuleErrors ==
    { "quorum cannot be larger than number of delegates",
      "there must be at least one delegate" }

\* C14: in delegate and redelegate, a quorum above the number of delegates
\* and an empty delegate list are rejected before any build attempt: when the
\* error is raised the builder has not been invoked and no external
\* collaborator (protocol parameters, UTXO resolution, evaluator) has been
\* called.
C14_RulesRejectedBeforeBuild ==
    (pc = "Failed" /\ cause \in RuleErrors) =>
        /\ calls = <<>>
        /\ \A i \in 1..Len(log) :
              log[i] \notin {"with", "protocol_parameters", "resolve", "evaluate"}

\* C19: in redelegate, total_cost = new contract coin + fee - old contract
\* coin never underflows in any builder invocation, the first one with
\* fee = 0 and an old contract output above the new minimum included: no
\* invocation ends in an arithmetic overflow or in a wrapped cost.
C19_NoUnderflow ==
    op = "redelegate" =>
        \A j \in 1..Len(calls) :
            "panic" \in DOMAIN calls[j] =>
                /\ calls[j].panic # Panic("attempt to subtract with overflow")
                /\ "wrapped" \notin DOMAIN calls[j].panic

\* the key of a redeemer
KeyOf(r) == [tag |-> r.tag, index |-> r.index]

\* the results an evaluation reported under the key of redeemer r
ReportedFor(reported, r) ==
    {reported[i] : i \in {j \in 1..Len(reported) : reported[j].key = KeyOf(r)}}

\* redeemer r declares the units the evaluation reported under r's own key
DeclaresReported(reported, r) ==
    /\ Cardinality(ReportedFor(reported, r)) = 1
    /\ \A e \in ReportedFor(reported, r) : r.ex_units = e.ex_units

\* C20: measured units are fed back by list position, without their keys;
\* for delegate, redelegate and vote the units reported for a redeemer key
\* in one iteration are given, in the next, to the redeemer with that same
\* key, and every redeemer of the returned transaction declares the units
\* measured for itself, the evaluator reporting in witness-set order.
C20_UnitsFollowKeys ==
    op \in {"delegate", "redelegate", "vote"} =>
        /\ \A k \in 1..(Len(calls) - 1) :
              "tx" \in DOMAIN calls[k + 1] =>
                  /\ "reported" \in DOMAIN calls[k]
                  /\ Len(calls[k + 1].tx.redeemers) = Len(calls[k].reported)
                  /\ \A i \in 1..Len(calls[k + 1].tx.redeemers) :
                        DeclaresReported(calls[k].reported, calls[k + 1].tx.redeemers[i])
        /\ pc \in {"Converged", "Reported"} =>
              /\ calls # <<>>
              /\ result = Last.tx
              /\ Len(result.redeemers) = Len(Last.reported)
              /\ \A i \in 1..Len(result.redeemers) :
                    DeclaresReported(Last.reported, result.redeemers[i])

\* a redelegate that converged after an evaluation reported non-zero units
\* for the Spend redeemer and zero units for the first Cert redeemer
C20_Witness ==
    /\ op = "redelegate"
    /\ pc = "Converged"
    /\ Len(calls) >= 2
    /\ Len(Last.reported) = 4
    /\ Last.reported[2].key = [tag |-> "Spend", index |-> 1]
    /\ Last.reported[2].ex_units = ExUnits(MaxMem, MaxSteps)
    /\ Last.reported[3].key = [tag |-> "Cert", index |-> 0]
    /\ Last.reported[3].ex_units = ExUnits(0, 0)
    /\ result.redeemers[2].ex_units # result.redeemers[3].ex_units

\* a vote and a delegate returned after a second iteration
C20_WitnessVote == op = "vote" /\ pc = "Converged" /\ Len(calls) >= 2

C20_WitnessDelegate ==
    /\ op = "delegate" /\ pc = "Converged" /\ Len(calls) >= 2
    /\ Last.reported[1].ex_units # Last.reported[2].ex_units

\* the change output: at the fuel's address, the fuel's value with only the
\* coin changed, and a strictly positive coin
KeepsFuelAssets(change) ==
    /\ change.address = world.fuel.address
    /\ change.value = [world.fuel.value EXCEPT !.coin = change.value.coin]
    /\ change.value.coin > 0

\* C21: every transaction returned by delegate, redelegate or vote conserves
\* coin: delegate has fuel = contract output + change + fee + drep_deposit;
\* redelegate has fuel + old contract = new contract + change + fee, the
\* unregister refund and the register deposit cancelling; vote has fuel =
\* change + fee; and the change output keeps the fuel's multi-asset map and
\* holds a strictly positive coin.
C21_CoinConservation ==
    LET t         == result
        fuel_coin == world.fuel.value.coin
    IN  /\ Returned("delegate") =>
              /\ t.inputs = <<FuelRef>>
              /\ Len(t.outputs) = 2
              /\ Len(t.certificates) = 1
              /\ t.certificates[1].kind = "RegDRepCert"
              /\ t.certificates[1].deposit = params.drep_deposit
              /\ fuel_coin = t.outputs[1].value.coin + t.outputs[2].value.coin
                                + t.fee + params.drep_deposit
              /\ KeepsFuelAssets(t.outputs[2])
        /\ Returned("redelegate") =>
              /\ {t.inputs[i] : i \in 1..Len(t.inputs)} = {cmd.contract.value, FuelRef}
              /\ Len(t.inputs) = 2
              /\ Len(t.outputs) = 2
              /\ Len(t.certificates) = 2
              /\ t.certificates[1].kind = "UnRegDRepCert"
              /\ t.certificates[2].kind = "RegDRepCert"
              /\ t.certificates[1].deposit = t.certificates[2].deposit
              /\ fuel_coin + world.contract.value.coin
                    = t.outputs[1].value.coin + t.outputs[2].value.coin + t.fee
              /\ KeepsFuelAssets(t.outputs[2])
        /\ Returned("vote") =>
              /\ t.inputs = <<FuelRef>>
              /\ Len(t.outputs) = 1
              /\ t.certificates = <<>>
              /\ fuel_coin = t.outputs[1].value.coin + t.fee
              /\ KeepsFuelAssets(t.outputs[1])

\* a redelegation returned with a positive fee, whose old contract output
\* held less coin than the new one and whose fuel carried other assets
C21_Witness ==
    /\ Returned("redelegate")
    /\ result.fee > 0
    /\ world.contract.value.coin < result.outputs[1].value.coin
    /\ world.fuel.value.kind = "Multiasset"
    /\ world.fuel.value.assets # <<>>

C21_WitnessDelegate ==
    /\ Returned("delegate")
    /\ result.fee > 0
    /\ world.fuel.value.kind = "Multiasset"

C21_WitnessVote ==
    /\ Returned("vote")
    /\ result.fee > 0
    /\ world.fuel.value.kind = "Multiasset"

=============================================================================
